---- MODULE Spec2Model ----
(***************************************************************************)
(* Model of the release package of ecm-distro-tools: the release-notes     *)
(* generator (GenReleaseNotes with its version resolvers and templates)    *)
(* and the release asset manager (CheckUpstreamRelease, VerifyAssets,      *)
(* ListAssets, DeleteAssetsByRelease, DeleteAssetByID).                    *)
(*                                                                         *)
(* Go strings are TLA+ strings; a character is a string of length one.     *)
(* Go slices are sequences, a nil slice is the empty sequence.             *)
(***************************************************************************)
EXTENDS Integers, Sequences, FiniteSets, TLC

(***************************************************************************)
(* Go string primitives used by the package (strings, unicode, bufio).     *)
(***************************************************************************)

\* the character of s at 1-based position i
At(s, i) == SubSeq(s, i, i)

\* s[i:] of Go for a 0-based byte offset i
From(s, i) == SubSeq(s, i + 1, Len(s))

\* s[:i] of Go for a 0-based byte offset i
Upto(s, i) == SubSeq(s, 1, i)

\* strings.HasPrefix
HasPrefix(s, p) == Len(p) <= Len(s) /\ SubSeq(s, 1, Len(p)) = p

\* strings.Index: 0-based offset of the first occurrence of sub in s, or -1
Index(s, sub) ==
    LET hits == {i \in 0..(Len(s) - Len(sub)) : SubSeq(s, i + 1, i + Len(sub)) = sub}
    IN  IF hits = {} THEN -1 ELSE CHOOSE i \in hits : \A j \in hits : i <= j

\* strings.Contains
Contains(s, sub) == Index(s, sub) # -1

\* strings.Split for a non-empty separator
RECURSIVE Split(_, _)
Split(s, sep) ==
    LET i == Index(s, sep)
    IN  IF i = -1 THEN <<s>>
        ELSE <<Upto(s, i)>> \o Split(From(s, i + Len(sep)), sep)

\* strings.Replace(s, old, new, -1) and strings.ReplaceAll for a non-empty old
RECURSIVE ReplaceAll(_, _, _)
ReplaceAll(s, old, new) ==
    LET i == Index(s, old)
    IN  IF i = -1 THEN s
        ELSE Upto(s, i) \o new \o ReplaceAll(From(s, i + Len(old)), old, new)

Digits == {"0", "1", "2", "3", "4", "5", "6", "7", "8", "9"}

LowerLetters == {"a", "b", "c", "d", "e", "f", "g", "h", "i", "j", "k", "l", "m",
                 "n", "o", "p", "q", "r", "s", "t", "u", "v", "w", "x", "y", "z"}

UpperLetters == {"A", "B", "C", "D", "E", "F", "G", "H", "I", "J", "K", "L", "M",
                 "N", "O", "P", "Q", "R", "S", "T", "U", "V", "W", "X", "Y", "Z"}

\* unicode.IsLetter on the ASCII range
IsLetter(c) == c \in LowerLetters \cup UpperLetters

\* unicode.ToUpper on the ASCII range
ToUpper(c) ==
    CASE c = "a" -> "A" [] c = "b" -> "B" [] c = "c" -> "C" [] c = "d" -> "D"
      [] c = "e" -> "E" [] c = "f" -> "F" [] c = "g" -> "G" [] c = "h" -> "H"
      [] c = "i" -> "I" [] c = "j" -> "J" [] c = "k" -> "K" [] c = "l" -> "L"
      [] c = "m" -> "M" [] c = "n" -> "N" [] c = "o" -> "O" [] c = "p" -> "P"
      [] c = "q" -> "Q" [] c = "r" -> "R" [] c = "s" -> "S" [] c = "t" -> "T"
      [] c = "u" -> "U" [] c = "v" -> "V" [] c = "w" -> "W" [] c = "x" -> "X"
      [] c = "y" -> "Y" [] c = "z" -> "Z" [] OTHER -> c

\* the character classes \d, \w and \s of Go's regexp on the ASCII range
IsDigit(c) == c \in Digits
IsSpace(c) == c \in {" ", "\t", "\n", "\r", "\f"}

\* bufio.Scanner with ScanLines over a text: the lines without their "\n"
\* and without one trailing "\r"; a final empty line is not a token
DropCR(l) == IF Len(l) > 0 /\ At(l, Len(l)) = "\r" THEN Upto(l, Len(l) - 1) ELSE l

RECURSIVE ScanLines(_)
ScanLines(text) ==
    IF text = "" THEN <<>>
    ELSE LET i == Index(text, "\n")
         IN  IF i = -1 THEN <<DropCR(text)>>
             ELSE <<DropCR(Upto(text, i))>> \o ScanLines(From(text, i + 1))

(***************************************************************************)
(* The regular expressions of the resolvers.  FindStringSubmatch gives the *)
(* leftmost match as <<whole match, group 1, group 2, ...>>, a group that  *)
(* took no part as "", and <<>> (nil) when the line has no match.          *)
(***************************************************************************)

\* buildScriptVersion: (?P<version>v[\d\.]+(-k3s.\w*)?)
buildScriptRegex == "(?P<version>v[\\d\\.]+(-k3s.\\w*)?)"

\* dockerfileVersion
dockerfileRegex == "(?:FROM|RUN)\\s(?:CHART_VERSION=\\\"|[\\w-]+/[\\w-]+:)(?P<version>.*?)([0-9][0-9])?(-build.*)?\\\"?\\s"

\* imageTagVersion: :(.*)(-build.*)?
imageTagRegex == ":(.*)(-build.*)?"

\* sqliteVersionBinding: \"(.*)\"
sqliteRegex == "\\\"(.*)\\\""

\* length of the longest prefix of s made of characters of the class
RECURSIVE RunLen(_, _)
RunLen(s, class) ==
    IF s # "" /\ Head(s) \in class THEN 1 + RunLen(Tail(s), class) ELSE 0

\* the classes \w, [\d\.] and [\w-]
WordChars == Digits \cup LowerLetters \cup UpperLetters \cup {"_"}
VersionChars == Digits \cup {"."}
NameChars == WordChars \cup {"-"}

\* the least and the greatest element of a non-empty set of integers: the
\* leftmost, the shortest (lazy) and the longest (greedy) choice of the matcher
Min(S) == CHOOSE x \in S : \A y \in S : x <= y
Max(S) == CHOOSE x \in S : \A y \in S : x >= y

\* (-k3s.\w*)? at the start of rest: the text it takes
MatchBuildScriptSuffix(rest) ==
    IF HasPrefix(rest, "-k3s") /\ Len(rest) >= 5
       THEN Upto(rest, 5 + RunLen(From(rest, 5), WordChars))
       ELSE ""

\* the groups of a match made of v[\d\.]+ and of the optional suffix
MatchBuildScriptGroups(core, suffix) ==
    <<core \o suffix, core \o suffix, suffix>>

\* the match that starts at position p, n being the length of [\d\.]+
MatchBuildScriptAt(line, p, n) ==
    MatchBuildScriptGroups(SubSeq(line, p, p + n),
                           MatchBuildScriptSuffix(From(line, p + n)))

\* (?P<version>v[\d\.]+(-k3s.\w*)?)
MatchBuildScript(line) ==
    LET starts == {p \in 1..(Len(line) - 1) :
                      At(line, p) = "v" /\ At(line, p + 1) \in VersionChars}
    IN  IF starts = {} THEN <<>>
        ELSE MatchBuildScriptAt(line, Min(starts),
                                RunLen(From(line, Min(starts)), VersionChars))

\* \"?\s at the start of s: the number of characters it takes, or -1
QuoteSpace(s) ==
    IF Len(s) >= 2 /\ At(s, 1) = "\"" /\ IsSpace(At(s, 2)) THEN 2
    ELSE IF Len(s) >= 1 /\ IsSpace(At(s, 1)) THEN 1
    ELSE -1

\* (-build.*) taking the first k characters of r, then \"?\s
MatchDockerfileBuildAt(r, k) == <<k + QuoteSpace(From(r, k)), Upto(r, k)>>

\* (-build.*)?\"?\s at the start of r, .* greedy: <<characters taken, group 3>>,
\* or <<>> when it does not match
MatchDockerfileBuild(r) ==
    LET ks == IF HasPrefix(r, "-build")
                 THEN {k \in 6..Len(r) : QuoteSpace(From(r, k)) # -1}
                 ELSE {}
    IN  IF ks # {} THEN MatchDockerfileBuildAt(r, Max(ks))
        ELSE IF QuoteSpace(r) # -1 THEN <<QuoteSpace(r), "">>
        ELSE <<>>

\* the tail when the rest matches after two digits (after) or without them
\* (plain): a group takes part if it can
MatchDockerfileDigits(s, after, plain) ==
    IF Len(s) >= 2 /\ IsDigit(At(s, 1)) /\ IsDigit(At(s, 2)) /\ after # <<>>
       THEN <<2 + after[1], Upto(s, 2), after[2]>>
    ELSE IF plain # <<>> THEN <<plain[1], "", plain[2]>>
    ELSE <<>>

\* ([0-9][0-9])?(-build.*)?\"?\s at the start of s:
\* <<characters taken, group 2, group 3>>, or <<>> when it does not match
MatchDockerfileTail(s) ==
    MatchDockerfileDigits(s, MatchDockerfileBuild(From(s, 2)), MatchDockerfileBuild(s))

\* (?:FROM|RUN) at the start of s: the number of characters it takes, or -1
MatchDockerfileKeyword(s) ==
    IF HasPrefix(s, "FROM") THEN 4 ELSE IF HasPrefix(s, "RUN") THEN 3 ELSE -1

\* [\w-]+/[\w-]+: at the start of a, w1 and w2 being the lengths of the two
\* names: the number of characters it takes, or -1
MatchDockerfileImage(a, w1, w2) ==
    IF w1 > 0 /\ Len(a) > w1 /\ At(a, w1 + 1) = "/"
       /\ w2 > 0 /\ Len(a) > w1 + 1 + w2 /\ At(a, w1 + 1 + w2 + 1) = ":"
       THEN w1 + 1 + w2 + 1
    ELSE -1

\* (?:CHART_VERSION=\"|[\w-]+/[\w-]+:) at the start of a
MatchDockerfileTarget(a, w1) ==
    IF HasPrefix(a, "CHART_VERSION=\"") THEN 15
    ELSE MatchDockerfileImage(a, w1, RunLen(From(a, w1 + 1), NameChars))

\* \s(?:CHART_VERSION=\"|[\w-]+/[\w-]+:) after the keyword of kw characters
MatchDockerfileAfter(s, kw, target) ==
    IF kw = -1 \/ Len(s) <= kw \/ ~IsSpace(At(s, kw + 1)) \/ target = -1 THEN -1
    ELSE kw + 1 + target

\* (?:FROM|RUN)\s(?:CHART_VERSION=\"|[\w-]+/[\w-]+:) at the start of s, kw
\* being the length of the keyword
MatchDockerfileHeadAt(s, kw) ==
    MatchDockerfileAfter(s, kw,
        MatchDockerfileTarget(From(s, kw + 1), RunLen(From(s, kw + 1), NameChars)))

\* (?:FROM|RUN)\s(?:CHART_VERSION=\"|[\w-]+/[\w-]+:) at offset p of the
\* line: the number of characters it takes, or -1
MatchDockerfileHead(line, p) ==
    MatchDockerfileHeadAt(From(line, p), MatchDockerfileKeyword(From(line, p)))

\* the lengths the lazy (?P<version>.*?) can take when the head took the h
\* characters at offset p of the line
MatchDockerfileLazyAt(line, p, h) ==
    IF h = -1 THEN {}
    ELSE {n \in 0..(Len(line) - p - h) :
             MatchDockerfileTail(From(line, p + h + n)) # <<>>}

\* the same, for the head that matches at offset p
MatchDockerfileLazy(line, p) ==
    MatchDockerfileLazyAt(line, p, MatchDockerfileHead(line, p))

\* the groups of the match: head of h characters at offset p, version of n
\* characters, tail t
MatchDockerfileGroups(line, p, h, n, t) ==
    <<SubSeq(line, p + 1, p + h + n + t[1]),
      SubSeq(line, p + h + 1, p + h + n), t[2], t[3]>>

\* the match at offset p with a version of n characters
MatchDockerfileVersion(line, p, h, n) ==
    MatchDockerfileGroups(line, p, h, n, MatchDockerfileTail(From(line, p + h + n)))

\* the match at offset p: the version is lazy, so it is the shortest text
\* after which the tail matches
MatchDockerfileAt(line, p, h) ==
    MatchDockerfileVersion(line, p, h, Min(MatchDockerfileLazyAt(line, p, h)))

\* the match of the leftmost start among starts
MatchDockerfileFrom(line, p) ==
    MatchDockerfileAt(line, p, MatchDockerfileHead(line, p))

\* the dockerfile expression
MatchDockerfile(line) ==
    LET starts == {p \in 0..Len(line) : MatchDockerfileLazy(line, p) # {}}
    IN  IF starts = {} THEN <<>> ELSE MatchDockerfileFrom(line, Min(starts))

\* :(.*)(-build.*)?  -- the greedy (.*) takes the rest of the line
MatchImageTag(line) ==
    LET p == Index(line, ":")
    IN  IF p = -1 THEN <<>> ELSE <<From(line, p), From(line, p + 1), "">>

\* \"(.*)\"  -- from the first quote to the last one
MatchSqlite(line) ==
    LET qs == {p \in 1..Len(line) : At(line, p) = "\""}
    IN  IF Cardinality(qs) < 2 THEN <<>>
        ELSE LET lo == CHOOSE x \in qs : \A y \in qs : x <= y
                 hi == CHOOSE x \in qs : \A y \in qs : x >= y
             IN  <<SubSeq(line, lo, hi), SubSeq(line, lo + 1, hi - 1)>>

\* regexp.MustCompile(regex).FindStringSubmatch(line)
FindStringSubmatch(regex, line) ==
    CASE regex = buildScriptRegex -> MatchBuildScript(line)
      [] regex = dockerfileRegex -> MatchDockerfile(line)
      [] regex = imageTagRegex -> MatchImageTag(line)
      [] regex = sqliteRegex -> MatchSqlite(line)

(***************************************************************************)
(* State.                                                                  *)
(***************************************************************************)
VARIABLES
    pc,        \* the function being executed and the position in it
    args,      \* the arguments of the running call
    remote,    \* the release platform: for each tag its release, if any
    calls,     \* the release-platform calls issued so far, with their answers
    i,         \* number of elements of the ranged-over list already processed
    releases,  \* the local map releases of CheckUpstreamRelease / VerifyAssets
    release,   \* the local *github.RepositoryRelease of the asset operations
    ret,       \* what the call returned
    upstream,  \* the remote text sources: what each well-known file holds
    fetched,   \* the URLs fetched so far, in order
    content,   \* the local content of GenReleaseNotes (the changelog)
    ctx        \* the map handed to ExecuteTemplate by GenReleaseNotes

vars == <<pc, args, remote, calls, i, releases, release, ret,
          upstream, fetched, content, ctx>>

(***************************************************************************)
(* Bounds of the model.                                                    *)
(***************************************************************************)

\* longest tag list handed to CheckUpstreamRelease / VerifyAssets
MaxTags == 3

\* most assets of a release whose assets are deleted one by one
MaxAssets == 3

\* most entries of a changelog
MaxEntries == 2

(***************************************************************************)
(* Release Asset Manager.                                                  *)
(***************************************************************************)

rke2Assets == 50
k3sAssets == 18
rke2Packaging == 23

\* the tags callers pass; "" is the empty tag
TagSet == {"", "v1.25.3", "v1.25.4"}

\* repository names callers pass
RepoSet == {"k3s", "rke2", "rke2-packing", "nosuchrepo"}

\* repository.OrgFromRepo: the organization of a known repository, "" with
\* an error for any other name
OrgFromRepo(repo_) ==
    CASE repo_ = "k3s" -> "k3s-io"
      [] repo_ = "rke2" -> "rancher"
      [] repo_ = "rke2-packing" -> "rancher"
      [] OTHER -> ""

\* asset counts a release on the platform may have
AssetCounts == {0, MaxAssets, k3sAssets, rke2Packaging,
                rke2Assets - 1, rke2Assets, rke2Assets + 1}

\* asset ids are unique on the platform: the ids of a tag's assets start here
IdBase(tag_) == IF tag_ = "v1.25.3" THEN 100 ELSE 200

\* the assets of the release of a tag with n assets: asset ids, newest first
AssetList(tag_, n) == [k \in 1..n |-> IdBase(tag_) + n - k]

NoRelease == [exists |-> FALSE, Assets |-> <<>>]

\* the states of the release platform: the empty tag never names a release
Remotes ==
    {r \in [TagSet -> {NoRelease} \cup
                      {[exists |-> TRUE, Assets |-> AssetList(t, n)] :
                          t \in TagSet, n \in AssetCounts}] :
        /\ r[""] = NoRelease
        /\ \A t \in TagSet :
              r[t].exists => r[t].Assets = AssetList(t, Len(r[t].Assets))}

\* answers of Repositories.GetReleaseByTag: the release, a 404
\* *github.ErrorResponse, another *github.ErrorResponse, or an error of
\* another type (transport)
GetReleaseByTag(tag_) ==
    {IF remote[tag_].exists
        THEN [kind |-> "ok", release |-> remote[tag_]]
        ELSE [kind |-> "ErrorResponse404", release |-> NoRelease],
     [kind |-> "ErrorResponse500", release |-> NoRelease],
     [kind |-> "error", release |-> NoRelease]}

\* a slip that takes every *github.ErrorResponse for "not found"
IsNotFoundAnyStatus(kind) == kind \in {"ErrorResponse404", "ErrorResponse500"}

\* the type switch on the error of GetReleaseByTag: a *github.ErrorResponse
\* whose status is http.StatusNotFound
IsNotFound(kind) == kind = "ErrorResponse404"

\* Go map assignment m[k] = v
MapSet(m, k, v) == [t \in DOMAIN m \cup {k} |-> IF t = k THEN v ELSE m[t]]

EmptyMap == [t \in {} |-> FALSE]

NoArgs == [op |-> "", repo |-> "", tags |-> <<>>, tag |-> "", id |-> 0,
           milestone |-> "", prevMilestone |-> "", url |-> "", regex |-> "", str |-> "",
           name |-> "", branchVersion |-> "", alpineVersion |-> "", dryRun |-> FALSE,
           versions |-> <<>>]

NoRet == [err |-> "", isNil |-> TRUE, val |-> EmptyMap]

(***************************************************************************)
(* Remote text sources.                                                    *)
(***************************************************************************)

\* an answer of http.Get: status 200 with a body, or a failure
Unavailable == [status |-> 404, body |-> ""]
Ok(text) == [status |-> 200, body |-> text]

\* a go.mod as modfile.Parse reads it: the replace and the require
\* directives in file order
GoModFull ==
    [status |-> 200, parsed |-> TRUE,
     Replace |-> <<[Old |-> "github.com/containerd/containerd", New |-> "v1.6.8-k3s1"],
                   [Old |-> "github.com/containerd/containerd/api", New |-> "v1.6.0"],
                   [Old |-> "github.com/opencontainers/runc", New |-> "v1.1.4"],
                   [Old |-> "go.etcd.io/etcd/api/v3", New |-> "v3.5.3-k3s1"]>>,
     Require |-> <<[Path |-> "github.com/containerd/containerd", Version |-> "v1.6.8"],
                   [Path |-> "github.com/flannel-io/flannel", Version |-> "v0.20.1"],
                   [Path |-> "github.com/k3s-io/helm-controller", Version |-> "v0.13.0"],
                   [Path |-> "github.com/k3s-io/kine", Version |-> "v0.9.6"],
                   [Path |-> "github.com/mattn/go-sqlite3", Version |-> "v1.14.15"],
                   [Path |-> "github.com/opencontainers/runc", Version |-> "v1.1.3"],
                   [Path |-> "go.etcd.io/etcd/api/v3", Version |-> "v3.5.4"]>>]

GoModKineOnly ==
    [status |-> 200, parsed |-> TRUE, Replace |-> <<>>,
     Require |-> <<[Path |-> "github.com/k3s-io/kine", Version |-> "v0.9.0"]>>]

GoModBroken == [status |-> 200, parsed |-> FALSE, Replace |-> <<>>, Require |-> <<>>]

GoModMissing == [status |-> 404, parsed |-> FALSE, Replace |-> <<>>, Require |-> <<>>]

\* scripts/version.sh
VersionSh ==
    "VERSION_CONTAINERD=\"v1.6.6-k3s1\"\nVERSION_RUNC=\"v1.1.2\"\nETCD_VERSION=${ETCD_VERSION:-v3.5.4-k3s1}\n"

\* Dockerfile of rke2
Dockerfile ==
    "FROM rancher/hardened-containerd:v1.6.9-k3s1-build20220912 AS containerd\nFROM rancher/hardened-runc:v1.1.5-build20220912 AS runc\nRUN CHART_VERSION=\"4.1.004\" CHART_FILE=/charts/rke2-ingress-nginx.yaml\n"

\* scripts/airgap/image-list.txt of k3s
ImageList ==
    "docker.io/rancher/mirrored-coredns-coredns:1.9.4\ndocker.io/rancher/local-path-provisioner:v0.0.23\ndocker.io/rancher/mirrored-library-traefik:2.9.4\ndocker.io/rancher/mirrored-metrics-server:v0.6.1\n"

\* scripts/build-images of rke2
BuildImages ==
    "# flannel and calico images of canal\n${REGISTRY}/rancher/hardened-calico:v3.24.5-build20221011\n${REGISTRY}/rancher/hardened-flannel:v0.20.1-build20221011\n${REGISTRY}/rancher/mirrored-calico-node:v3.24.5\n${REGISTRY}/rancher/mirrored-cilium-cilium:v1.12.3\n${REGISTRY}/rancher/hardened-multus-cni:v3.9-build20221011\n${REGISTRY}/rancher/hardened-cni-plugins:v1.1.1-build20221011\n${REGISTRY}/rancher/hardened-coredns:v1.9.3-build20221011\n${REGISTRY}/rancher/hardened-k8s-metrics-server:v0.6.1-build20221011\n${REGISTRY}/rancher/mirrored-flannel-cni:v1.0.0\n"

\* scripts/build-images of rke2 without the calico images
BuildImagesNoCalico ==
    "${REGISTRY}/rancher/hardened-flannel:v0.20.1-build20221011\n${REGISTRY}/rancher/hardened-coredns:v1.9.3-build20221011\n"

\* scripts/build-images of rke2 with a calico-node tag that is no semantic
\* version
BuildImagesOddTag ==
    "${REGISTRY}/rancher/hardened-calico:v3.24.5-build20221011\n${REGISTRY}/rancher/hardened-flannel:v0.20.1-build20221011\n${REGISTRY}/rancher/mirrored-calico-node:3.24.5\n"

\* sqlite3-binding.h of mattn/go-sqlite3
SqliteBinding ==
    "#define SQLITE_VERSION        \"3.39.2\"\n#define SQLITE_VERSION_NUMBER 3039002\n"

NoUpstream ==
    [gomod |-> GoModMissing, versionsh |-> Unavailable, dockerfile |-> Unavailable,
     imagelist |-> Unavailable, buildimages |-> Unavailable, sqlite |-> Unavailable]

FullUpstream ==
    [gomod |-> GoModFull, versionsh |-> Ok(VersionSh), dockerfile |-> Ok(Dockerfile),
     imagelist |-> Ok(ImageList), buildimages |-> Ok(BuildImages),
     sqlite |-> Ok(SqliteBinding)]

\* the states of the remote text sources: every source answers, none does,
\* or one of them fails or holds another text
Upstreams ==
    {FullUpstream, NoUpstream}
    \cup {[FullUpstream EXCEPT !.gomod = g] : g \in {GoModMissing, GoModBroken, GoModKineOnly}}
    \cup {[NoUpstream EXCEPT !.gomod = GoModKineOnly]}
    \cup {[FullUpstream EXCEPT !.versionsh = Unavailable],
          [FullUpstream EXCEPT !.dockerfile = Unavailable],
          [FullUpstream EXCEPT !.imagelist = Unavailable],
          [FullUpstream EXCEPT !.buildimages = Unavailable],
          [FullUpstream EXCEPT !.buildimages = Ok(BuildImagesNoCalico)],
          [FullUpstream EXCEPT !.buildimages = Ok(BuildImagesOddTag)],
          [FullUpstream EXCEPT !.sqlite = Unavailable]}

\* strings.HasSuffix
HasSuffix(s, x) == Len(x) <= Len(s) /\ SubSeq(s, Len(s) - Len(x) + 1, Len(s)) = x

\* http.Get(url) for a text source
Get(url) ==
    CASE HasSuffix(url, "/scripts/version.sh") -> upstream.versionsh
      [] HasSuffix(url, "/Dockerfile") -> upstream.dockerfile
      [] HasSuffix(url, "/scripts/airgap/image-list.txt") -> upstream.imagelist
      [] HasSuffix(url, "/scripts/build-images") -> upstream.buildimages
      [] HasSuffix(url, "/sqlite3-binding.h") -> upstream.sqlite
      [] OTHER -> Unavailable

\* the loop of findInURL as a bug would have it: a match does not end the
\* scan, so the match of the last matching line is returned
RECURSIVE findInLinesLast(_, _, _, _)
findInLinesLast(lines, regex, str, submatch) ==
    IF lines = <<>> THEN submatch
    ELSE LET line == Head(lines)
         IN  IF Contains(line, str)
                THEN IF regex = ""
                        THEN findInLinesLast(Tail(lines), regex, str, Append(submatch, line))
                     ELSE LET m == FindStringSubmatch(regex, line)
                          IN  findInLinesLast(Tail(lines), regex, str,
                                              IF Len(m) > 1 THEN m ELSE submatch)
             ELSE findInLinesLast(Tail(lines), regex, str, submatch)

\* the loop `for scanner.Scan()` of findInURL over the remaining lines
RECURSIVE findInLines(_, _, _, _)
findInLines(lines, regex, str, submatch) ==
    IF lines = <<>> THEN submatch
    ELSE LET line == Head(lines)
         IN  IF Contains(line, str)
                THEN IF regex = ""
                        THEN findInLines(Tail(lines), regex, str, Append(submatch, line))
                     ELSE LET m == FindStringSubmatch(regex, line)
                          IN  IF Len(m) > 1 THEN m
                              ELSE findInLines(Tail(lines), regex, str, m)
             ELSE findInLines(Tail(lines), regex, str, submatch)

\* findInURL
findInURL(url, regex, str) ==
    LET resp == Get(url)
    IN  IF resp.status # 200 THEN <<>>
        ELSE findInLines(ScanLines(resp.body), regex, str, <<>>)

\* the repository path of the raw-content URLs
RepoName(repo_) == IF repo_ = "rke2" THEN "rancher/rke2" ELSE "k3s-io/k3s"

Raw == "https://raw.githubusercontent.com/"

goModURL(repo_, branchVersion) == Raw \o RepoName(repo_) \o "/" \o branchVersion \o "/go.mod"

\* the first element of the sequence that satisfies the test, as a
\* one-element sequence, or <<>>
RECURSIVE FirstPath(_, _, _)
FirstPath(ds, libraryName, old) ==
    IF ds = <<>> THEN <<>>
    ELSE IF Contains(IF old THEN Head(ds).Old ELSE Head(ds).Path, libraryName)
            THEN <<Head(ds)>>
    ELSE FirstPath(Tail(ds), libraryName, old)

\* goModLibVersion as a bug would have it: the require section is searched
\* before the replace section
goModLibVersionRequireFirst(libraryName, repo_, branchVersion) ==
    LET f == upstream.gomod
        replace == FirstPath(f.Replace, libraryName, TRUE)
        require == FirstPath(f.Require, libraryName, FALSE)
    IN  IF f.status # 200 \/ ~f.parsed THEN ""
        ELSE IF require # <<>> THEN require[1].Version
        ELSE IF replace # <<>> THEN replace[1].New
        ELSE ""

\* goModLibVersion
goModLibVersion(libraryName, repo_, branchVersion) ==
    LET f == upstream.gomod
        replace == FirstPath(f.Replace, libraryName, TRUE)
        require == FirstPath(f.Require, libraryName, FALSE)
    IN  IF f.status # 200 \/ ~f.parsed THEN ""
        ELSE IF replace # <<>> THEN replace[1].New
        ELSE IF require # <<>> THEN require[1].Version
        ELSE ""

buildScriptURL(repo_, branchVersion) ==
    Raw \o RepoName(repo_) \o "/" \o branchVersion \o "/scripts/version.sh"

\* buildScriptVersion
buildScriptVersion(varName, repo_, branchVersion) ==
    LET submatch == findInURL(buildScriptURL(repo_, branchVersion), buildScriptRegex, varName)
    IN  IF Len(submatch) > 1 THEN submatch[2] ELSE ""

dockerfileURL(branchVersion) == Raw \o "rancher/rke2" \o "/" \o branchVersion \o "/Dockerfile"

\* dockerfileVersion
dockerfileVersion(chartName, repo_, branchVersion) ==
    IF Contains(repo_, "k3s") THEN ""
    ELSE LET submatch == findInURL(dockerfileURL(branchVersion), dockerfileRegex, chartName)
         IN  IF Len(submatch) > 1 THEN submatch[2] ELSE ""

imageListURL(repo_, branchVersion) ==
    IF repo_ = "rke2"
       THEN Raw \o "rancher/rke2" \o "/" \o branchVersion \o "/scripts/build-images"
       ELSE Raw \o "k3s-io/k3s" \o "/" \o branchVersion \o "/scripts/airgap/image-list.txt"

\* imageTagVersion as a bug would have it: the build suffix is not cut off
imageTagVersionUncut(ImageName, repo_, branchVersion) ==
    LET submatch == findInURL(imageListURL(repo_, branchVersion), imageTagRegex, ImageName)
    IN  IF Len(submatch) > 1 THEN submatch[2] ELSE ""

\* imageTagVersion
imageTagVersion(ImageName, repo_, branchVersion) ==
    LET submatch == findInURL(imageListURL(repo_, branchVersion), imageTagRegex, ImageName)
    IN  IF Len(submatch) > 1
           THEN IF Contains(submatch[2], "-build")
                   THEN Split(submatch[2], "-")[1]
                   ELSE submatch[2]
        ELSE ""

sqliteBindingURL(sqliteVersion) ==
    "https://raw.githubusercontent.com/mattn/go-sqlite3/" \o sqliteVersion \o "/sqlite3-binding.h"

\* sqliteVersionBinding
sqliteVersionBinding(sqliteVersion) ==
    LET submatch == findInURL(sqliteBindingURL(sqliteVersion), sqliteRegex, "SQLITE_VERSION")
    IN  IF Len(submatch) > 1 THEN submatch[2] ELSE ""

(***************************************************************************)
(* Template helpers.                                                       *)
(***************************************************************************)

\* whether s is a decimal number as semver takes it: digits, no leading zero
IsSemverInt(s) ==
    /\ s # ""
    /\ RunLen(s, Digits) = Len(s)
    /\ (Len(s) > 1 => Head(s) # "0")

\* the characters of a semver identifier
IdentChars == Digits \cup LowerLetters \cup UpperLetters \cup {"-"}

\* a dot-separated list of non-empty identifiers; the numeric ones of a
\* pre-release carry no leading zero
IsIdentList(s, pre) ==
    LET ids == Split(s, ".")
    IN  \A k \in 1..Len(ids) :
            /\ ids[k] # ""
            /\ RunLen(ids[k], IdentChars) = Len(ids[k])
            /\ (pre /\ RunLen(ids[k], Digits) = Len(ids[k])) => IsSemverInt(ids[k])

\* what may follow the patch number: -prerelease and +build, both optional
IsSemverRest(s) ==
    LET plus == Index(s, "+")
        pre == IF plus = -1 THEN s ELSE Upto(s, plus)
        build == IF plus = -1 THEN "" ELSE From(s, plus)
    IN  /\ pre # "" => (Head(pre) = "-" /\ IsIdentList(Tail(pre), TRUE))
        /\ build # "" => IsIdentList(Tail(build), FALSE)

\* semver.MajorMinor: "vMAJOR.MINOR" of a valid version, "" of any other text
MajorMinor(v) ==
    IF ~HasPrefix(v, "v") THEN ""
    ELSE LET major == Upto(Tail(v), RunLen(Tail(v), Digits))
             r1 == From(v, 1 + Len(major))
             minor == Upto(Tail(r1), RunLen(Tail(r1), Digits))
             r2 == From(r1, 1 + Len(minor))
             patch == Upto(Tail(r2), RunLen(Tail(r2), Digits))
             r3 == From(r2, 1 + Len(patch))
         IN  IF ~IsSemverInt(major) THEN ""
             ELSE IF r1 = "" THEN "v" \o major \o ".0"
             ELSE IF Head(r1) # "." \/ ~IsSemverInt(minor) THEN ""
             ELSE IF r2 = "" THEN "v" \o major \o "." \o minor
             ELSE IF Head(r2) # "." \/ ~IsSemverInt(patch) THEN ""
             ELSE IF ~IsSemverRest(r3) THEN ""
             ELSE "v" \o major \o "." \o minor

\* majMin as a bug would have it: the empty result is not made an error
majMinNoError(v) == [val |-> MajorMinor(v), err |-> FALSE]

\* majMin: the value and whether it is an error
majMin(v) == [val |-> MajorMinor(v), err |-> MajorMinor(v) = ""]

\* trimPeriods
trimPeriods(v) == ReplaceAll(v, ".", "")

\* capitalize: the first letter of s in upper case
capitalize(s) ==
    LET letters == {k \in 1..Len(s) : IsLetter(At(s, k))}
    IN  IF letters = {} THEN s
        ELSE LET k == CHOOSE x \in letters : \A y \in letters : x <= y
             IN  Upto(s, k - 1) \o ToUpper(At(s, k)) \o From(s, k)

NoCtx == <<>>

(***************************************************************************)
(* The templates.  A document is the sequence of its lines that hold a     *)
(* template action, with the headings of its sections; the fixed prose     *)
(* between them is left out.                                               *)
(***************************************************************************)

\* the sub-bullets as a bug would have them: without `if ne $line ""`
RECURSIVE noteLinesKeepEmpty(_)
noteLinesKeepEmpty(lines) ==
    IF lines = <<>> THEN <<>>
    ELSE <<"  * " \o capitalize(Head(lines))>> \o noteLinesKeepEmpty(Tail(lines))

\* the sub-bullets of one changelog entry: `range $i, $line := $lines`
RECURSIVE noteLines(_)
noteLines(lines) ==
    IF lines = <<>> THEN <<>>
    ELSE (IF Head(lines) # "" THEN <<"  * " \o capitalize(Head(lines))>> ELSE <<>>)
         \o noteLines(Tail(lines))

\* the bullets of the changelog: `range .content`
RECURSIVE changelogEntries(_)
changelogEntries(entries) ==
    IF entries = <<>> THEN <<>>
    ELSE LET e == Head(entries)
         IN  <<"* " \o capitalize(e.Title) \o " [(#" \o ToString(e.Number) \o ")]("
                 \o e.URL \o ")">>
             \o noteLines(Split(e.Note, "\n"))
             \o changelogEntries(Tail(entries))

\* {{ define "changelog" }}
changelogTemplate(c) ==
    <<"## Changes since " \o c.prevMilestone \o ":">> \o changelogEntries(c.content)

\* a table row "| component | [text](target) |"
Row(component, text, target) ==
    "| " \o component \o " | [" \o text \o "](" \o target \o ") |"

K8sChangelog(c) ==
    "https://github.com/kubernetes/kubernetes/blob/master/CHANGELOG/CHANGELOG-"
        \o c.majorMinor \o ".md#" \o c.changeLogVersion

\* the release line whose containerd and runc rows take other fields
ExceptionLine == "1.23"

\* the containerd row of the rke2 template: {{- if eq .majorMinor "1.23"}}
rke2ContainerdRow(c) ==
    IF c.majorMinor = ExceptionLine
       THEN Row("Containerd", c.ContainerdVersionGoMod,
                "https://github.com/k3s-io/containerd/releases/tag/"
                    \o c.ContainerdVersionGoMod)
       ELSE Row("Containerd", c.ContainerdVersionRKE2,
                "https://github.com/k3s-io/containerd/releases/tag/"
                    \o c.ContainerdVersionRKE2)

\* the runc row of the rke2 template, outside the if
rke2RuncRow(c) ==
    Row("Runc", c.RuncVersionRKE2,
        "https://github.com/opencontainers/runc/releases/tag/" \o c.RuncVersionRKE2)

\* {{ define "rke2" }}: the document, or the error of the first failing majMin
rke2ReleaseNoteTemplate(c) ==
    LET head ==
            <<"<!-- " \o c.milestone \o " -->">>
            \o changelogTemplate(c)
            \o <<"## Packaged Component Versions",
                 Row("Kubernetes", c.k8sVersion, K8sChangelog(c)),
                 Row("Etcd", c.EtcdVersionRKE2,
                     "https://github.com/k3s-io/etcd/releases/tag/" \o c.EtcdVersionRKE2),
                 rke2ContainerdRow(c),
                 rke2RuncRow(c),
                 Row("Metrics-server", c.MetricsServerVersion,
                     "https://github.com/kubernetes-sigs/metrics-server/releases/tag/"
                         \o c.MetricsServerVersion),
                 Row("CoreDNS", c.CoreDNSVersion,
                     "https://github.com/coredns/coredns/releases/tag/" \o c.CoreDNSVersion),
                 Row("Ingress-Nginx", c.IngressNginxVersion,
                     "https://github.com/kubernetes/ingress-nginx/releases/tag/helm-chart-"
                         \o c.IngressNginxVersion),
                 Row("Helm-controller", c.HelmControllerVersion,
                     "https://github.com/k3s-io/helm-controller/releases/tag/"
                         \o c.HelmControllerVersion),
                 "### Available CNIs">>
        canal == majMin(c.CanalCalicoVersion)
        calico == majMin(c.CalicoVersion)
        tail ==
            <<"| Canal (Default) | [Flannel " \o c.FlannelVersionRKE2
                 \o "](https://github.com/k3s-io/flannel/releases/tag/" \o c.FlannelVersionRKE2
                 \o ")<br/>[Calico " \o c.CanalCalicoVersion
                 \o "](https://projectcalico.docs.tigera.io/archive/" \o canal.val
                 \o "/release-notes/#" \o trimPeriods(c.CanalCalicoVersion) \o ") | Yes |",
              "| Calico | [" \o c.CalicoVersion
                 \o "](https://projectcalico.docs.tigera.io/archive/" \o calico.val
                 \o "/release-notes/#" \o trimPeriods(c.CalicoVersion) \o ") | No |",
              "| Cilium | [" \o c.CiliumVersion
                 \o "](https://github.com/cilium/cilium/releases/tag/" \o c.CiliumVersion
                 \o ") | No |",
              "| Multus | [" \o c.MultusVersion
                 \o "](https://github.com/k8snetworkplumbingwg/multus-cni/releases/tag/"
                 \o c.MultusVersion \o ") | No |",
              "## Known Issues",
              "curl -sfL https://get.rke2.io | sudo INSTALL_RKE2_VERSION=" \o c.milestone,
              "## Helpful Links">>
    IN  IF canal.err \/ calico.err
           THEN [err |-> "version is not valid", lines |-> <<>>]
           ELSE [err |-> "", lines |-> head \o tail]

\* the containerd and runc rows of the k3s template as a bug would have them:
\* the runc row takes its field by the rule of the containerd row
k3sRuntimeRowsAlike(c) ==
    IF c.majorMinor = ExceptionLine
       THEN <<Row("Containerd", c.ContainerdVersionGoMod,
                  "https://github.com/k3s-io/containerd/releases/tag/"
                      \o c.ContainerdVersionGoMod),
              Row("Runc", c.RuncVersionGoMod,
                  "https://github.com/opencontainers/runc/releases/tag/"
                      \o c.RuncVersionGoMod)>>
       ELSE <<Row("Containerd", c.ContainerdVersionK3S,
                  "https://github.com/k3s-io/containerd/releases/tag/"
                      \o c.ContainerdVersionK3S),
              Row("Runc", c.RuncVersionBuildScript,
                  "https://github.com/opencontainers/runc/releases/tag/"
                      \o c.RuncVersionBuildScript)>>

\* the containerd and runc rows of the k3s template:
\* {{- if eq .majorMinor "1.23"}} ... {{- else }} ... {{- end }}
k3sRuntimeRows(c) ==
    IF c.majorMinor = ExceptionLine
       THEN <<Row("Containerd", c.ContainerdVersionGoMod,
                  "https://github.com/k3s-io/containerd/releases/tag/"
                      \o c.ContainerdVersionGoMod),
              Row("Runc", c.RuncVersionBuildScript,
                  "https://github.com/opencontainers/runc/releases/tag/"
                      \o c.RuncVersionBuildScript)>>
       ELSE <<Row("Containerd", c.ContainerdVersionK3S,
                  "https://github.com/k3s-io/containerd/releases/tag/"
                      \o c.ContainerdVersionK3S),
              Row("Runc", c.RuncVersionGoMod,
                  "https://github.com/opencontainers/runc/releases/tag/"
                      \o c.RuncVersionGoMod)>>

\* {{ define "k3s" }}
k3sReleaseNoteTemplate(c) ==
    [err |-> "",
     lines |->
        <<"<!-- " \o c.milestone \o " -->",
          "This release updates Kubernetes to " \o c.k8sVersion
             \o ", and fixes a number of issues.",
          "For more details on what's new, see the [Kubernetes release notes]"
             \o "(https://github.com/kubernetes/kubernetes/blob/master/CHANGELOG/CHANGELOG-"
             \o c.majorMinor \o ".md#changelog-since-" \o c.changeLogSince \o ").">>
        \o changelogTemplate(c)
        \o <<"## Embedded Component Versions",
             Row("Kubernetes", c.k8sVersion, K8sChangelog(c)),
             Row("Kine", c.KineVersion,
                 "https://github.com/k3s-io/kine/releases/tag/" \o c.KineVersion),
             Row("SQLite", c.SQLiteVersion,
                 "https://sqlite.org/releaselog/" \o c.SQLiteVersionReplaced \o ".html"),
             Row("Etcd", c.EtcdVersionK3S,
                 "https://github.com/k3s-io/etcd/releases/tag/" \o c.EtcdVersionK3S)>>
        \o k3sRuntimeRows(c)
        \o <<Row("Flannel", c.FlannelVersionK3S,
                 "https://github.com/flannel-io/flannel/releases/tag/" \o c.FlannelVersionK3S),
             Row("Metrics-server", c.MetricsServerVersion,
                 "https://github.com/kubernetes-sigs/metrics-server/releases/tag/"
                     \o c.MetricsServerVersion),
             Row("Traefik", "v" \o c.TraefikVersion,
                 "https://github.com/traefik/traefik/releases/tag/v" \o c.TraefikVersion),
             Row("CoreDNS", "v" \o c.CoreDNSVersion,
                 "https://github.com/coredns/coredns/releases/tag/v" \o c.CoreDNSVersion),
             Row("Helm-controller", c.HelmControllerVersion,
                 "https://github.com/k3s-io/helm-controller/releases/tag/"
                     \o c.HelmControllerVersion),
             Row("Local-path-provisioner", c.LocalPathProvisionerVersion,
                 "https://github.com/rancher/local-path-provisioner/releases/tag/"
                     \o c.LocalPathProvisionerVersion),
             "## Helpful Links">>]

\* tmpl.ExecuteTemplate(buf, repo, ...): the template named like the repo
ExecuteTemplate(name, c) ==
    CASE name = "k3s" -> k3sReleaseNoteTemplate(c)
      [] name = "rke2" -> rke2ReleaseNoteTemplate(c)
      [] OTHER -> [err |-> "no template associated with the name", lines |-> <<>>]

\* sequences over S of length at most n
SeqUpTo(S, n) == UNION {[1..k -> S] : k \in 0..n}

notesVars == <<upstream, fetched, content, ctx>>

assetVars == <<remote, calls, i, releases, release>>

\* the state before a call of the asset manager, for every state of the
\* release platform; no remote text source answers
InitAssets ==
    /\ pc = "idle"
    /\ args = NoArgs
    /\ remote \in Remotes
    /\ calls = <<>>
    /\ i = 0
    /\ releases = EmptyMap
    /\ release = NoRelease
    /\ ret = NoRet
    /\ upstream = NoUpstream
    /\ fetched = <<>>
    /\ content = <<>>
    /\ ctx = NoCtx

\* CheckUpstreamRelease: entry, make(map[string]bool)
CheckUpstreamRelease(repo_, tags_) ==
    /\ UNCHANGED notesVars
    /\ pc = "idle"
    /\ pc' = "CheckUpstreamRelease"
    /\ args' = [NoArgs EXCEPT !.op = "CheckUpstreamRelease", !.repo = repo_, !.tags = tags_]
    /\ i' = 0
    /\ releases' = EmptyMap
    /\ UNCHANGED <<remote, calls, release, ret>>

\* CheckUpstreamRelease: one iteration of `for _, tag := range tags`
CheckUpstreamReleaseStep ==
    /\ UNCHANGED notesVars
    /\ pc = "CheckUpstreamRelease"
    /\ i < Len(args.tags)
    /\ LET tag == args.tags[i + 1]
       IN  \E resp \in GetReleaseByTag(tag) :
             /\ calls' = Append(calls, [api |-> "GetReleaseByTag", tag |-> tag,
                                        id |-> 0, answer |-> resp.kind])
             /\ CASE resp.kind = "ok" ->
                       /\ releases' = MapSet(releases, tag, TRUE)
                       /\ i' = i + 1
                       /\ UNCHANGED <<pc, ret>>
                  [] IsNotFound(resp.kind) ->
                       /\ releases' = MapSet(releases, tag, FALSE)
                       /\ i' = i + 1
                       /\ UNCHANGED <<pc, ret>>
                  [] OTHER ->
                       /\ pc' = "done"
                       /\ ret' = [NoRet EXCEPT !.err = resp.kind]
                       /\ UNCHANGED <<releases, i>>
    /\ UNCHANGED <<args, remote, release>>

\* CheckUpstreamRelease: `return releases, nil` after the loop
CheckUpstreamReleaseReturn ==
    /\ UNCHANGED notesVars
    /\ pc = "CheckUpstreamRelease"
    /\ i = Len(args.tags)
    /\ pc' = "done"
    /\ ret' = [err |-> "", isNil |-> FALSE, val |-> releases]
    /\ UNCHANGED <<args, remote, calls, i, releases, release>>

\* VerifyAssets: entry, the checks before the loop, make(map[string]bool)
VerifyAssets(repo_, tags_) ==
    /\ UNCHANGED notesVars
    /\ pc = "idle"
    /\ args' = [NoArgs EXCEPT !.op = "VerifyAssets", !.repo = repo_, !.tags = tags_]
    /\ IF Len(tags_) = 0
          THEN /\ pc' = "done"
               /\ ret' = [NoRet EXCEPT !.err = "no tags provided"]
       ELSE IF OrgFromRepo(repo_) = ""
          THEN /\ pc' = "done"
               /\ ret' = [NoRet EXCEPT !.err = "repo not found"]
       ELSE /\ pc' = "VerifyAssets"
            /\ ret' = ret
    /\ i' = 0
    /\ releases' = EmptyMap
    /\ UNCHANGED <<remote, calls, release>>

\* the three `if repo == ... && len(release.Assets) == ...` of VerifyAssets,
\* applied in order to the map
VerifyCount(m, repo_, tag_, n) ==
    LET m1 == IF repo_ = "rke2" /\ n = rke2Assets THEN MapSet(m, tag_, TRUE) ELSE m
        m2 == IF repo_ = "k3s" /\ n = k3sAssets THEN MapSet(m1, tag_, TRUE) ELSE m1
        m3 == IF repo_ = "rke2-packing" /\ n = rke2Packaging
                 THEN MapSet(m2, tag_, TRUE) ELSE m2
    IN  m3

\* VerifyAssets: one iteration of `for _, tag := range tags`
VerifyAssetsStep ==
    /\ UNCHANGED notesVars
    /\ pc = "VerifyAssets"
    /\ i < Len(args.tags)
    /\ LET tag == args.tags[i + 1]
       IN  IF tag = ""
              THEN /\ i' = i + 1
                   /\ UNCHANGED <<pc, ret, releases, calls, release>>
              ELSE \E resp \in GetReleaseByTag(tag) :
                     /\ calls' = Append(calls, [api |-> "GetReleaseByTag", tag |-> tag,
                                                id |-> 0, answer |-> resp.kind])
                     /\ CASE resp.kind = "ok" ->
                               /\ release' = resp.release
                               /\ releases' = VerifyCount(releases, args.repo, tag,
                                                          Len(resp.release.Assets))
                               /\ i' = i + 1
                               /\ UNCHANGED <<pc, ret>>
                          [] IsNotFound(resp.kind) ->
                               /\ releases' = MapSet(releases, tag, FALSE)
                               /\ i' = i + 1
                               /\ UNCHANGED <<pc, ret, release>>
                          [] OTHER ->
                               /\ pc' = "done"
                               /\ ret' = [NoRet EXCEPT !.err = resp.kind]
                               /\ UNCHANGED <<releases, i, release>>
    /\ UNCHANGED <<args, remote>>

\* VerifyAssets: `return releases, nil` after the loop
VerifyAssetsReturn ==
    /\ UNCHANGED notesVars
    /\ pc = "VerifyAssets"
    /\ i = Len(args.tags)
    /\ pc' = "done"
    /\ ret' = [err |-> "", isNil |-> FALSE, val |-> releases]
    /\ UNCHANGED <<args, remote, calls, i, releases, release>>

\* ListAssets: the whole function. After a 404 the local release is nil and
\* `release.Assets` dereferences it: a run-time panic.
ListAssets(repo_, tag_) ==
    /\ UNCHANGED notesVars
    /\ pc = "idle"
    /\ args' = [NoArgs EXCEPT !.op = "ListAssets", !.repo = repo_, !.tag = tag_]
    /\ IF OrgFromRepo(repo_) = ""
          THEN /\ pc' = "done"
               /\ ret' = [NoRet EXCEPT !.err = "repo not found"]
               /\ UNCHANGED <<calls, release>>
       ELSE IF tag_ = ""
          THEN /\ pc' = "done"
               /\ ret' = [NoRet EXCEPT !.err = "invalid tag provided"]
               /\ UNCHANGED <<calls, release>>
       ELSE \E resp \in GetReleaseByTag(tag_) :
              /\ calls' = Append(calls, [api |-> "GetReleaseByTag", tag |-> tag_,
                                         id |-> 0, answer |-> resp.kind])
              /\ CASE resp.kind = "ok" ->
                        /\ release' = resp.release
                        /\ pc' = "done"
                        /\ ret' = [err |-> "", isNil |-> FALSE,
                                   val |-> resp.release.Assets]
                   [] IsNotFound(resp.kind) ->
                        /\ pc' = "panic"
                        /\ UNCHANGED <<ret, release>>
                   [] OTHER ->
                        /\ pc' = "done"
                        /\ ret' = [NoRet EXCEPT !.err = resp.kind]
                        /\ UNCHANGED release
    /\ UNCHANGED <<remote, i, releases>>

\* DeleteAssetsByRelease: entry, the checks and the release lookup. After a
\* 404 the local release is nil and `range release.Assets` dereferences it.
DeleteAssetsByRelease(repo_, tag_) ==
    /\ UNCHANGED notesVars
    /\ pc = "idle"
    /\ args' = [NoArgs EXCEPT !.op = "DeleteAssetsByRelease", !.repo = repo_, !.tag = tag_]
    /\ IF OrgFromRepo(repo_) = ""
          THEN /\ pc' = "done"
               /\ ret' = [NoRet EXCEPT !.err = "repo not found"]
               /\ UNCHANGED <<calls, release>>
       ELSE IF tag_ = ""
          THEN /\ pc' = "done"
               /\ ret' = [NoRet EXCEPT !.err = "invalid tag provided"]
               /\ UNCHANGED <<calls, release>>
       ELSE \E resp \in GetReleaseByTag(tag_) :
              /\ calls' = Append(calls, [api |-> "GetReleaseByTag", tag |-> tag_,
                                         id |-> 0, answer |-> resp.kind])
              /\ CASE resp.kind = "ok" ->
                        /\ release' = resp.release
                        /\ pc' = "DeleteAssetsByRelease"
                        /\ UNCHANGED ret
                   [] IsNotFound(resp.kind) ->
                        /\ pc' = "panic"
                        /\ UNCHANGED <<ret, release>>
                   [] OTHER ->
                        /\ pc' = "done"
                        /\ ret' = [NoRet EXCEPT !.err = resp.kind]
                        /\ UNCHANGED release
    /\ i' = 0
    /\ UNCHANGED <<remote, releases>>

\* the sequence s without its elements equal to e
RECURSIVE Without(_, _)
Without(s, e) ==
    IF s = <<>> THEN <<>>
    ELSE IF Head(s) = e THEN Without(Tail(s), e)
    ELSE <<Head(s)>> \o Without(Tail(s), e)

\* the platform after Repositories.DeleteReleaseAsset(id) succeeded
DeleteReleaseAsset(id_) ==
    [t \in TagSet |-> [remote[t] EXCEPT !.Assets = Without(remote[t].Assets, id_)]]

\* whether the platform holds an asset with this id
HasAsset(id_) == \E t \in TagSet : \E k \in 1..Len(remote[t].Assets) : remote[t].Assets[k] = id_

\* answers of Repositories.DeleteReleaseAsset: done, or an error
DeleteAnswers(id_) == (IF HasAsset(id_) THEN {"ok"} ELSE {}) \cup {"error"}

\* a slip that drops the error of a delete
DeleteFailedIgnored(answer) == FALSE

\* `err != nil` after Repositories.DeleteReleaseAsset
DeleteFailed(answer) == answer # "ok"

\* DeleteAssetsByRelease: one iteration of `for _, asset := range release.Assets`
DeleteAssetsByReleaseStep ==
    /\ UNCHANGED notesVars
    /\ pc = "DeleteAssetsByRelease"
    /\ i < Len(release.Assets)
    /\ LET id == release.Assets[i + 1]
       IN  \E answer \in DeleteAnswers(id) :
             /\ calls' = Append(calls, [api |-> "DeleteReleaseAsset", tag |-> args.tag,
                                        id |-> id, answer |-> answer])
             /\ remote' = IF answer = "ok" THEN DeleteReleaseAsset(id) ELSE remote
             /\ IF DeleteFailed(answer)
                   THEN /\ pc' = "done"
                        /\ ret' = [NoRet EXCEPT !.err = answer]
                        /\ i' = i
                   ELSE /\ i' = i + 1
                        /\ UNCHANGED <<pc, ret>>
    /\ UNCHANGED <<args, releases, release>>

\* DeleteAssetsByRelease: `return nil` after the loop
DeleteAssetsByReleaseReturn ==
    /\ UNCHANGED notesVars
    /\ pc = "DeleteAssetsByRelease"
    /\ i = Len(release.Assets)
    /\ pc' = "done"
    /\ ret' = NoRet
    /\ UNCHANGED <<args, remote, calls, i, releases, release>>

\* asset identifiers callers pass to DeleteAssetByID
IdSet == {IdBase("v1.25.3"), IdBase("v1.25.3") + MaxAssets}

\* DeleteAssetByID: the whole function
DeleteAssetByID(repo_, tag_, id_) ==
    /\ UNCHANGED notesVars
    /\ pc = "idle"
    /\ args' = [NoArgs EXCEPT !.op = "DeleteAssetByID", !.repo = repo_, !.tag = tag_, !.id = id_]
    /\ pc' = "done"
    /\ IF OrgFromRepo(repo_) = ""
          THEN /\ ret' = [NoRet EXCEPT !.err = "repo not found"]
               /\ UNCHANGED <<calls, remote>>
       ELSE IF tag_ = ""
          THEN /\ ret' = [NoRet EXCEPT !.err = "invalid tag provided"]
               /\ UNCHANGED <<calls, remote>>
       ELSE \E answer \in DeleteAnswers(id_) :
              /\ calls' = Append(calls, [api |-> "DeleteReleaseAsset", tag |-> tag_,
                                         id |-> id_, answer |-> answer])
              /\ remote' = IF answer = "ok" THEN DeleteReleaseAsset(id_) ELSE remote
              /\ ret' = IF DeleteFailed(answer) THEN [NoRet EXCEPT !.err = answer] ELSE NoRet
    /\ UNCHANGED <<i, releases, release>>

(***************************************************************************)
(* GenReleaseNotes.                                                        *)
(***************************************************************************)

\* the names GenReleaseNotes is called with
NotesRepoSet == {"k3s", "rke2", "rke2-packing"}

\* milestones: a release, release candidates with one and with two digits,
\* an "-rc" with nothing after it, and a version without a minor number
Milestones ==
    {"v1.25.3+k3s1", "v1.23.5+rke2r1", "v1.25.3-rc1+k3s1", "v1.23.5-rc2+rke2r1",
     "v1.25.3-rc10+k3s1", "v1.25.3-rc", "v1-rc1+k3s1", "v1+k3s1"}

PrevMilestones == {"v1.25.2+k3s1"}

\* changelog entries as repository.RetrieveChangeLogContents gives them
Entries ==
    {[Title |-> "fix etcd snapshot", Number |-> 6400,
      URL |-> "https://github.com/k3s-io/k3s/pull/6400",
      Note |-> "bump etcd\n\n- fixes #6399"],
     [Title |-> "[release-1.25] update flannel", Number |-> 6405,
      URL |-> "https://github.com/k3s-io/k3s/pull/6405",
      Note |-> ""],
     [Title |-> "6410 backports", Number |-> 6410,
      URL |-> "https://github.com/k3s-io/k3s/pull/6410",
      Note |-> "\nupdated traefik\n"]}

\* the state before a call of GenReleaseNotes, for every state of the remote
\* text sources; the release platform holds no release
InitNotes ==
    /\ pc = "idle"
    /\ args = NoArgs
    /\ remote = [t \in TagSet |-> NoRelease]
    /\ calls = <<>>
    /\ i = 0
    /\ releases = EmptyMap
    /\ release = NoRelease
    /\ ret = NoRet
    /\ upstream \in Upstreams
    /\ fetched = <<>>
    /\ content = <<>>
    /\ ctx = NoCtx

\* GenReleaseNotes: entry, up to the answer of RetrieveChangeLogContents
GenReleaseNotes(repo_, milestone_, prevMilestone_) ==
    /\ pc = "idle"
    /\ args' = [NoArgs EXCEPT !.op = "GenReleaseNotes", !.repo = repo_,
                              !.milestone = milestone_, !.prevMilestone = prevMilestone_]
    /\ \/ \E c \in SeqUpTo(Entries, MaxEntries) :
            /\ content' = c
            /\ pc' = "GenReleaseNotes"
            /\ UNCHANGED ret
       \/ /\ pc' = "done"
          /\ ret' = [NoRet EXCEPT !.err = "changelog"]
          /\ UNCHANGED content
    /\ UNCHANGED <<assetVars, upstream, fetched, ctx>>

\* `idx+4` of the release-candidate removal: the offset after "-rc" and one
\* more character
AfterRC(idx) == idx + 4

\* whether the removal of the release-candidate suffix slices past the end
RCPanics(milestone) ==
    LET idx == Index(milestone, "-rc")
    IN  idx # -1 /\ AfterRC(idx) > Len(milestone)

\* milestoneNoRC: the milestone without "-rc" and the character after it
MilestoneNoRC(milestone) ==
    LET idx == Index(milestone, "-rc")
    IN  IF idx = -1 THEN milestone
        ELSE Upto(milestone, idx) \o From(milestone, AfterRC(idx))

\* k8sVersion
K8sVersion(milestone) == Split(MilestoneNoRC(milestone), "+")[1]

\* tmp, the dot-separated parts of the version without its "v"
VersionParts(milestone) == Split(ReplaceAll(K8sVersion(milestone), "v", ""), ".")

\* the branch reference the resolvers are called with
BranchRef(milestone) == milestone

\* the URLs GenReleaseNotes fetches, in the order of its resolver calls
FetchedURLs(repo_, ref) ==
    LET gm == <<goModURL(repo_, ref)>>
        bs == <<buildScriptURL(repo_, ref)>>
        df == IF Contains(repo_, "k3s") THEN <<>> ELSE <<dockerfileURL(ref)>>
        im == <<imageListURL(repo_, ref)>>
    IN  gm \o <<sqliteBindingURL(goModLibVersion("go-sqlite3", repo_, ref))>>
        \o bs \o gm \o bs \o gm \o df \o gm \o bs \o df
        \o im \o im \o im \o im \o df \o gm \o im \o gm
        \o im \o im \o im \o im \o gm \o im

\* GenReleaseNotes: from the changelog to the map handed to the template.
\* Slicing past the end of the milestone and indexing the missing second
\* part of the version are run-time panics.
GenReleaseNotesContext ==
    /\ pc = "GenReleaseNotes"
    /\ LET milestone == args.milestone
           repo_ == args.repo
           ref == BranchRef(milestone)
       IN  IF RCPanics(milestone) \/ Len(VersionParts(milestone)) < 2
              THEN /\ pc' = "panic"
                   /\ UNCHANGED <<ctx, fetched>>
              ELSE LET k8sVersion == K8sVersion(milestone)
                       tmp == VersionParts(milestone)
                       sqliteVersionK3S == goModLibVersion("go-sqlite3", repo_, ref)
                       sqliteBinding == sqliteVersionBinding(sqliteVersionK3S)
                   IN  /\ pc' = "ExecuteTemplate"
                       /\ fetched' = fetched \o FetchedURLs(repo_, ref)
                       /\ ctx' =
                            [milestone |-> MilestoneNoRC(milestone),
                             prevMilestone |-> args.prevMilestone,
                             changeLogSince |->
                                ReplaceAll(Split(args.prevMilestone, "+")[1], ".", ""),
                             content |-> content,
                             k8sVersion |-> k8sVersion,
                             changeLogVersion |-> ReplaceAll(k8sVersion, ".", ""),
                             majorMinor |-> tmp[1] \o "." \o tmp[2],
                             EtcdVersionRKE2 |-> buildScriptVersion("ETCD_VERSION", repo_, ref),
                             EtcdVersionK3S |-> goModLibVersion("etcd/api/v3", repo_, ref),
                             ContainerdVersionK3S |->
                                buildScriptVersion("VERSION_CONTAINERD", repo_, ref),
                             ContainerdVersionGoMod |->
                                goModLibVersion("containerd/containerd", repo_, ref),
                             ContainerdVersionRKE2 |->
                                dockerfileVersion("hardened-containerd", repo_, ref),
                             RuncVersionGoMod |-> goModLibVersion("runc", repo_, ref),
                             RuncVersionBuildScript |->
                                buildScriptVersion("VERSION_RUNC", repo_, ref),
                             RuncVersionRKE2 |-> dockerfileVersion("hardened-runc", repo_, ref),
                             CNIPluginsVersion |-> imageTagVersion("cni-plugins", repo_, ref),
                             MetricsServerVersion |->
                                imageTagVersion("metrics-server", repo_, ref),
                             TraefikVersion |-> imageTagVersion("traefik", repo_, ref),
                             CoreDNSVersion |-> imageTagVersion("coredns", repo_, ref),
                             IngressNginxVersion |->
                                dockerfileVersion("rke2-ingress-nginx", repo_, ref),
                             HelmControllerVersion |->
                                goModLibVersion("helm-controller", repo_, ref),
                             FlannelVersionRKE2 |-> imageTagVersion("flannel", repo_, ref),
                             FlannelVersionK3S |-> goModLibVersion("flannel", repo_, ref),
                             CalicoVersion |-> imageTagVersion("calico-node", repo_, ref),
                             CanalCalicoVersion |->
                                imageTagVersion("hardened-calico", repo_, ref),
                             CiliumVersion |-> imageTagVersion("cilium-cilium", repo_, ref),
                             MultusVersion |-> imageTagVersion("multus-cni", repo_, ref),
                             KineVersion |-> goModLibVersion("kine", repo_, ref),
                             SQLiteVersion |-> sqliteBinding,
                             SQLiteVersionReplaced |-> ReplaceAll(sqliteBinding, ".", "_"),
                             LocalPathProvisionerVersion |->
                                imageTagVersion("local-path-provisioner", repo_, ref)]
    /\ UNCHANGED <<args, assetVars, ret, upstream, content>>

\* GenReleaseNotes: tmpl.ExecuteTemplate and the return
GenReleaseNotesExecute ==
    /\ pc = "ExecuteTemplate"
    /\ LET out == ExecuteTemplate(args.repo, ctx)
       IN  ret' = IF out.err # ""
                     THEN [NoRet EXCEPT !.err = out.err]
                     ELSE [err |-> "", isNil |-> FALSE, val |-> out.lines]
    /\ pc' = "done"
    /\ UNCHANGED <<args, assetVars, upstream, fetched, content, ctx>>

\* markers and expressions findInURL is called with
Markers == {"flannel", "coredns", "calico", "VERSION_RUNC", "SQLITE_VERSION", "hardened-runc"}
Regexes == {"", buildScriptRegex, dockerfileRegex, imageTagRegex, sqliteRegex}
URLs == {buildScriptURL("k3s", "v1.25.3+k3s1"), dockerfileURL("v1.25.3+rke2r1"),
         imageListURL("k3s", "v1.25.3+k3s1"), imageListURL("rke2", "v1.25.3+rke2r1"),
         sqliteBindingURL("v1.14.15")}

\* findInURL called on its own
FindInURL(url_, regex_, str_) ==
    /\ pc = "idle"
    /\ args' = [NoArgs EXCEPT !.op = "findInURL", !.url = url_, !.regex = regex_,
                              !.str = str_]
    /\ fetched' = Append(fetched, url_)
    /\ ret' = [err |-> "", isNil |-> findInURL(url_, regex_, str_) = <<>>,
               val |-> findInURL(url_, regex_, str_)]
    /\ pc' = "done"
    /\ UNCHANGED <<assetVars, upstream, content, ctx>>

\* library names, image names and branch versions the resolvers are called with
Libraries == {"containerd/containerd", "containerd", "runc", "etcd/api/v3", "kine",
              "flannel", "go-sqlite3", "nosuchlib"}
ImageNames == {"cni-plugins", "metrics-server", "traefik", "coredns", "calico-node",
               "hardened-calico", "flannel", "local-path-provisioner", "nosuchimage"}
ResolverRepos == {"k3s", "rke2"}
BranchVersions == {"v1.25.3+k3s1", "v1.25.3-rc1+rke2r1"}

\* goModLibVersion called on its own
GoModLibVersion(libraryName_, repo_, branchVersion_) ==
    /\ pc = "idle"
    /\ args' = [NoArgs EXCEPT !.op = "goModLibVersion", !.name = libraryName_,
                              !.repo = repo_, !.branchVersion = branchVersion_]
    /\ fetched' = Append(fetched, goModURL(repo_, branchVersion_))
    /\ ret' = [err |-> "", isNil |-> FALSE,
               val |-> goModLibVersion(libraryName_, repo_, branchVersion_)]
    /\ pc' = "done"
    /\ UNCHANGED <<assetVars, upstream, content, ctx>>

\* imageTagVersion called on its own
ImageTagVersion(ImageName_, repo_, branchVersion_) ==
    /\ pc = "idle"
    /\ args' = [NoArgs EXCEPT !.op = "imageTagVersion", !.name = ImageName_,
                              !.repo = repo_, !.branchVersion = branchVersion_]
    /\ fetched' = Append(fetched, imageListURL(repo_, branchVersion_))
    /\ ret' = [err |-> "", isNil |-> FALSE,
               val |-> imageTagVersion(ImageName_, repo_, branchVersion_)]
    /\ pc' = "done"
    /\ UNCHANGED <<assetVars, upstream, content, ctx>>

NextNotes ==
    \/ \E r \in NotesRepoSet, m \in Milestones, p \in PrevMilestones :
          GenReleaseNotes(r, m, p)
    \/ GenReleaseNotesContext
    \/ GenReleaseNotesExecute
    \/ \E u \in URLs, re \in Regexes, str \in Markers : FindInURL(u, re, str)
    \/ \E l \in Libraries, r \in ResolverRepos, b \in BranchVersions :
          GoModLibVersion(l, r, b)
    \/ \E n \in ImageNames, r \in ResolverRepos, b \in BranchVersions :
          ImageTagVersion(n, r, b)

NextAssets ==
    \/ \E r \in RepoSet, ts \in SeqUpTo(TagSet, MaxTags) : CheckUpstreamRelease(r, ts)
    \/ CheckUpstreamReleaseStep
    \/ CheckUpstreamReleaseReturn
    \/ \E r \in RepoSet, ts \in SeqUpTo(TagSet, MaxTags) : VerifyAssets(r, ts)
    \/ VerifyAssetsStep
    \/ VerifyAssetsReturn
    \/ \E r \in RepoSet, t \in TagSet : ListAssets(r, t)
    \/ \E r \in RepoSet, t \in TagSet : DeleteAssetsByRelease(r, t)
    \/ DeleteAssetsByReleaseStep
    \/ DeleteAssetsByReleaseReturn
    \/ \E r \in RepoSet, t \in TagSet, id \in IdSet : DeleteAssetByID(r, t, id)

(***************************************************************************)
(* ImageBuildBaseRelease (package rke2).                                   *)
(***************************************************************************)

\* the longest list of Go versions
MaxVersions == 3

\* records of the Go download list: two stable versions, a release
\* candidate, and a stable record whose version lacks the "go" prefix
GoVersionRecords ==
    {[Version |-> "go1.19.3", Stable |-> TRUE],
     [Version |-> "go1.18.8", Stable |-> TRUE],
     [Version |-> "go1.20rc1", Stable |-> FALSE],
     [Version |-> "devel", Stable |-> TRUE]}

AlpineVersions == {"3.16"}

\* the tags of the image-build-base releases
BaseTags == {"v1.19.3b1", "v1.18.8b1"}

Released == [exists |-> TRUE, Assets |-> <<>>]

\* the state before a call of ImageBuildBaseRelease, for every state of the
\* releases of image-build-base
InitBase ==
    /\ pc = "idle"
    /\ args = NoArgs
    /\ remote \in [BaseTags -> {NoRelease, Released}]
    /\ calls = <<>>
    /\ i = 0
    /\ releases = EmptyMap
    /\ release = NoRelease
    /\ ret = NoRet
    /\ upstream = NoUpstream
    /\ fetched = <<>>
    /\ content = <<>>
    /\ ctx = NoCtx

\* ImageBuildBaseRelease: entry and goVersions, which fails or gives the list
ImageBuildBaseRelease(alpineVersion_, dryRun_) ==
    /\ pc = "idle"
    /\ \/ /\ args' = [NoArgs EXCEPT !.op = "ImageBuildBaseRelease",
                                     !.alpineVersion = alpineVersion_,
                                     !.dryRun = dryRun_]
          /\ pc' = "done"
          /\ ret' = [NoRet EXCEPT !.err = "failed to get stable go versions"]
       \/ \E vs \in SeqUpTo(GoVersionRecords, MaxVersions) :
            /\ args' = [NoArgs EXCEPT !.op = "ImageBuildBaseRelease",
                                      !.alpineVersion = alpineVersion_,
                                      !.dryRun = dryRun_, !.versions = vs]
            /\ pc' = "ImageBuildBaseRelease"
            /\ UNCHANGED ret
    /\ i' = 0
    /\ UNCHANGED <<remote, calls, releases, release, notesVars>>

\* a slip that takes no lookup for a found release
ReleaseFoundNever(kind) == FALSE

\* `err == nil` after GetReleaseByTag: the release already exists
ReleaseFound(kind) == kind = "ok"

\* answers of docker.CheckImageArchs
CheckImageArchs == {"ok", "error"}

\* answers of Repositories.CreateRelease: an existing tag is refused
CreateRelease(tag_) == (IF remote[tag_].exists THEN {} ELSE {"ok"}) \cup {"error"}

\* one entry of the log of calls
Call(api_, tag_, answer_) == [api |-> api_, tag |-> tag_, id |-> 0, answer |-> answer_]

\* the body of the loop for a stable version: the image check, the lookup
\* of the tag, and the release unless it exists or the run is dry
ImageBuildBaseReleaseStable(version) ==
    LET alpineTag == version \o "-alpine" \o args.alpineVersion
        imageBuildBaseTag == "v" \o version \o "b1"
    IN  \E archs \in CheckImageArchs, resp \in GetReleaseByTag(imageBuildBaseTag),
           created \in CreateRelease(imageBuildBaseTag) :
          IF archs # "ok"
             THEN /\ calls' = Append(calls, Call("CheckImageArchs", alpineTag, archs))
                  /\ pc' = "done"
                  /\ ret' = [NoRet EXCEPT !.err = "CheckImageArchs"]
                  /\ UNCHANGED <<i, remote>>
          ELSE IF ReleaseFound(resp.kind)
             THEN /\ calls' = calls \o <<Call("CheckImageArchs", alpineTag, archs),
                                          Call("GetReleaseByTag", imageBuildBaseTag, resp.kind)>>
                  /\ i' = i + 1
                  /\ UNCHANGED <<pc, ret, remote>>
          ELSE IF args.dryRun
             THEN /\ calls' = calls \o <<Call("CheckImageArchs", alpineTag, archs),
                                          Call("GetReleaseByTag", imageBuildBaseTag, resp.kind)>>
                  /\ pc' = "done"
                  /\ ret' = NoRet
                  /\ UNCHANGED <<i, remote>>
          ELSE /\ calls' = calls \o <<Call("CheckImageArchs", alpineTag, archs),
                                       Call("GetReleaseByTag", imageBuildBaseTag, resp.kind),
                                       Call("CreateRelease", imageBuildBaseTag, created)>>
               /\ IF created = "ok"
                     THEN /\ remote' = [remote EXCEPT ![imageBuildBaseTag] = Released]
                          /\ i' = i + 1
                          /\ UNCHANGED <<pc, ret>>
                     ELSE /\ pc' = "done"
                          /\ ret' = [NoRet EXCEPT !.err = "CreateRelease"]
                          /\ UNCHANGED <<i, remote>>

\* ImageBuildBaseRelease: one iteration of `for _, version := range versions`.
\* A version without "go" leaves one part, and indexing the second panics.
ImageBuildBaseReleaseStep ==
    /\ pc = "ImageBuildBaseRelease"
    /\ i < Len(args.versions)
    /\ LET version == args.versions[i + 1]
       IN  IF ~version.Stable
              THEN /\ i' = i + 1
                   /\ UNCHANGED <<pc, ret, calls, remote>>
           ELSE IF Len(Split(version.Version, "go")) < 2
              THEN /\ pc' = "panic"
                   /\ UNCHANGED <<i, ret, calls, remote>>
           ELSE ImageBuildBaseReleaseStable(Split(version.Version, "go")[2])
    /\ UNCHANGED <<args, releases, release, notesVars>>

\* ImageBuildBaseRelease: `return nil` after the loop
ImageBuildBaseReleaseReturn ==
    /\ pc = "ImageBuildBaseRelease"
    /\ i = Len(args.versions)
    /\ pc' = "done"
    /\ ret' = NoRet
    /\ UNCHANGED <<args, assetVars, notesVars>>

NextBase ==
    \/ \E a \in AlpineVersions, d \in BOOLEAN : ImageBuildBaseRelease(a, d)
    \/ ImageBuildBaseReleaseStep
    \/ ImageBuildBaseReleaseReturn

Init == InitAssets \/ InitNotes \/ InitBase

Next == NextAssets \/ NextNotes \/ NextBase

Spec == Init /\ [][Next]_vars

SpecNotes == InitNotes /\ [][NextNotes]_vars

SpecAssets == InitAssets /\ [][NextAssets]_vars

SpecBase == InitBase /\ [][NextBase]_vars

(***************************************************************************)
(* Properties of the Release Asset Manager.                                *)
(***************************************************************************)

\* the asset count the verification expects of a repository
ExpectedAssets(repo_) ==
    CASE repo_ = "rke2" -> rke2Assets
      [] repo_ = "k3s" -> k3sAssets
      [] OTHER -> rke2Packaging

\* the tags of a batch for which a release lookup is due, in input order
IsTag(t) == t # ""
LookupTags ==
    IF args.op = "VerifyAssets" THEN SelectSeq(args.tags, IsTag) ELSE args.tags

\* C3: when VerifyAssets returns without error, its result holds an entry
\* for every non-empty input tag: true exactly when the release exists with
\* the expected number of assets, an explicit false otherwise.
C3_ExplicitEntryPerTag ==
    (pc = "done" /\ args.op = "VerifyAssets" /\ ret.err = "") =>
        \A k \in 1..Len(args.tags) :
            LET t == args.tags[k]
            IN  t # "" =>
                  /\ t \in DOMAIN ret.val
                  /\ ret.val[t] = (/\ remote[t].exists
                                   /\ Len(remote[t].Assets) = ExpectedAssets(args.repo))

\* C7: the batch operations look tags up one by one in input order; a 404
\* records false for the tag and the batch goes on; any other error ends
\* the batch with that error and a nil map, and no later tag is looked up.
C7_BatchAbortsOnFirstError ==
    args.op \in {"CheckUpstreamRelease", "VerifyAssets"} =>
        LET n == Len(calls)
        IN  /\ n <= Len(LookupTags)
            /\ \A k \in 1..n : /\ calls[k].api = "GetReleaseByTag"
                               /\ calls[k].tag = LookupTags[k]
            /\ \A k \in 1..(n - 1) : calls[k].answer \in {"ok", "ErrorResponse404"}
            /\ \A k \in 1..n :
                  calls[k].answer = "ErrorResponse404" =>
                      /\ calls[k].tag \in DOMAIN releases
                      /\ releases[calls[k].tag] = FALSE
            /\ (n > 0 /\ calls[n].answer \notin {"ok", "ErrorResponse404"}) =>
                  /\ pc = "done"
                  /\ ret.isNil
                  /\ ret.err = calls[n].answer
            /\ (pc = "done" /\ ret.err = "") =>
                  /\ n = Len(LookupTags)
                  /\ ~ret.isNil

\* C7 witness: a batch of three tags whose first answer was a 404 and whose
\* second was another error has ended, the third tag never looked up.
C7_Witness ==
    /\ pc = "done"
    /\ args.op = "CheckUpstreamRelease"
    /\ Len(args.tags) = 3
    /\ Len(calls) = 2
    /\ calls[1].answer = "ErrorResponse404"
    /\ calls[2].answer = "ErrorResponse500"
    /\ ret.isNil

\* C8: once the release is found, DeleteAssetsByRelease deletes its assets
\* one by one in list order; a failed delete ends the call with the error,
\* the earlier assets stay deleted and the later ones are never touched;
\* without a failure every asset is deleted, each by exactly one call.
C8_DeleteNotTransactional ==
    (args.op = "DeleteAssetsByRelease" /\ Len(calls) >= 1 /\ calls[1].answer = "ok") =>
        LET A == release.Assets
            m == Len(calls) - 1
        IN  /\ m <= Len(A)
            /\ \A k \in 1..m : /\ calls[k + 1].api = "DeleteReleaseAsset"
                               /\ calls[k + 1].id = A[k]
            /\ \A k \in 1..(m - 1) : calls[k + 1].answer = "ok"
            /\ \A k \in 1..m : calls[k + 1].answer = "ok" => ~HasAsset(A[k])
            /\ \A k \in (m + 1)..Len(A) : HasAsset(A[k])
            /\ (m > 0 /\ calls[m + 1].answer # "ok") =>
                  /\ pc = "done"
                  /\ ret.err = calls[m + 1].answer
                  /\ HasAsset(A[m])
            /\ (pc = "done" /\ ret.err = "") =>
                  /\ m = Len(A)
                  /\ \A k \in 1..Len(A) : ~HasAsset(A[k])

\* C8 witness: the second of at least three deletes failed, after the first
\* succeeded, and the call has returned the error.
C8_Witness ==
    /\ pc = "done"
    /\ args.op = "DeleteAssetsByRelease"
    /\ Len(release.Assets) >= 3
    /\ Len(calls) = 3
    /\ calls[2].answer = "ok"
    /\ calls[3].answer = "error"
    /\ ret.err = "error"
(***************************************************************************)
(* Properties of the release notes.                                        *)
(***************************************************************************)

\* a call of GenReleaseNotes that got its changelog and has returned
NotesReturned ==
    pc = "done" /\ args.op = "GenReleaseNotes" /\ ret.err # "changelog"

\* C1: for k3s and for rke2, whatever resolvers find nothing, GenReleaseNotes
\* renders the document and returns no error.
C1_NotFoundNeverBlocksRendering ==
    (NotesReturned /\ args.repo \in {"k3s", "rke2"}) =>
        (ret.err = "" /\ ~ret.isNil)

\* whether the milestone has a suffix -rcN, N one or more digits
HasRCSuffix(milestone) ==
    /\ Index(milestone, "-rc") # -1
    /\ RunLen(From(milestone, Index(milestone, "-rc") + 3), Digits) >= 1

\* the milestone without its substring -rcN
WithoutRCSuffix(milestone) ==
    LET idx == Index(milestone, "-rc")
        n == RunLen(From(milestone, idx + 3), Digits)
    IN  Upto(milestone, idx) \o From(milestone, idx + 3 + n)

\* the fetched URLs that carry a branch reference: all but the sqlite binding
BranchURLs == SelectSeq(fetched, LAMBDA u : ~Contains(u, "/mattn/go-sqlite3/"))

\* C2: for a milestone with a suffix -rcN, the milestone of the render
\* context is the milestone with exactly "-rcN" removed, and every resolver
\* call is made with the original milestone as the branch reference.
C2_RCSuffixRemoved ==
    (/\ args.op = "GenReleaseNotes"
     /\ pc \in {"ExecuteTemplate", "done"}
     /\ ret.err # "changelog"
     /\ HasRCSuffix(args.milestone)) =>
        /\ ctx.milestone = WithoutRCSuffix(args.milestone)
        /\ Len(BranchURLs) > 0
        /\ \A k \in 1..Len(BranchURLs) :
              Contains(BranchURLs[k], "/" \o args.milestone \o "/")

\* the lines of the text the URL answers with
LinesOf(url) == IF Get(url).status = 200 THEN ScanLines(Get(url).body) ELSE <<>>

\* the lines that hold the marker and that the expression matches
MatchingLines(url, regex, str) ==
    {k \in 1..Len(LinesOf(url)) :
        /\ Contains(LinesOf(url)[k], str)
        /\ FindStringSubmatch(regex, LinesOf(url)[k]) # <<>>}

\* C4: with a non-empty expression, findInURL returns the submatch of the
\* first line that holds the marker and matches the expression, never that
\* of a later line; when no line holds the marker, or none of those lines
\* matches, it returns no capture.
C4_FirstMatchingLine ==
    (pc = "done" /\ args.op = "findInURL" /\ args.regex # "") =>
        LET hits == MatchingLines(args.url, args.regex, args.str)
        IN  IF hits = {} THEN ret.val = <<>>
            ELSE /\ ret.val = FindStringSubmatch(args.regex,
                                                 LinesOf(args.url)[Min(hits)])
                 /\ Len(ret.val) > 1

\* C4 witness: the marker "flannel" in the build-images text, whose first
\* line with the marker does not match and which has two later lines that do;
\* the answer is the tag of the first of the two.
C4_Witness ==
    /\ pc = "done"
    /\ args.op = "findInURL"
    /\ args.regex = imageTagRegex
    /\ args.str = "flannel"
    /\ Cardinality(MatchingLines(args.url, args.regex, args.str)) = 2
    /\ \E k \in 1..Len(LinesOf(args.url)) :
          /\ Contains(LinesOf(args.url)[k], args.str)
          /\ k < Min(MatchingLines(args.url, args.regex, args.str))
    /\ ret.val[2] = "v0.20.1-build20221011"
\* the positions of the replace and of the require directives whose path
\* holds the library name
ReplaceHits(libraryName) ==
    {k \in 1..Len(upstream.gomod.Replace) :
        Contains(upstream.gomod.Replace[k].Old, libraryName)}
RequireHits(libraryName) ==
    {k \in 1..Len(upstream.gomod.Require) :
        Contains(upstream.gomod.Require[k].Path, libraryName)}

\* C5: of a fetched and parsed go.mod, goModLibVersion returns the new-side
\* version of the first replace directive whose path holds the library
\* name, also when a require directive holds it too; it returns the version
\* of the first such require directive only when no replace path holds it.
C5_ReplaceBeforeRequire ==
    (/\ pc = "done"
     /\ args.op = "goModLibVersion"
     /\ upstream.gomod.status = 200
     /\ upstream.gomod.parsed) =>
        /\ ReplaceHits(args.name) # {} =>
              ret.val = upstream.gomod.Replace[Min(ReplaceHits(args.name))].New
        /\ (ReplaceHits(args.name) = {} /\ RequireHits(args.name) # {}) =>
              ret.val = upstream.gomod.Require[Min(RequireHits(args.name))].Version

\* C5 witness: "runc" is replaced by v1.1.4 and required at v1.1.3; the
\* answer is the replace version.
C5_Witness ==
    /\ pc = "done"
    /\ args.op = "goModLibVersion"
    /\ args.name = "runc"
    /\ upstream.gomod.status = 200
    /\ ReplaceHits("runc") # {}
    /\ RequireHits("runc") # {}
    /\ upstream.gomod.Require[Min(RequireHits("runc"))].Version = "v1.1.3"
    /\ ret.val = "v1.1.4"

\* the image list of the call, and its lines that hold the image name and a
\* colon
ImageLines == LinesOf(imageListURL(args.repo, args.branchVersion))
ImageHits ==
    {k \in 1..Len(ImageLines) :
        Contains(ImageLines[k], args.name) /\ Contains(ImageLines[k], ":")}

\* the text after the first colon of the first such line
ImageTag ==
    From(ImageLines[Min(ImageHits)], Index(ImageLines[Min(ImageHits)], ":") + 1)

\* C6: imageTagVersion returns the tag of the first line that holds the
\* image name: only the part before its first hyphen when the tag holds
\* "-build", the whole tag when it does not; the empty string when no line
\* holds the name.
C6_BuildSuffixCut ==
    (pc = "done" /\ args.op = "imageTagVersion") =>
        IF ImageHits = {} THEN ret.val = ""
        ELSE IF Contains(ImageTag, "-build")
                THEN /\ ret.val = Upto(ImageTag, Index(ImageTag, "-"))
                     /\ ~Contains(ret.val, "-")
        ELSE ret.val = ImageTag

\* C6 witness: the line of cni-plugins with the tag v1.1.1-build20221011
\* gave v1.1.1.
C6_Witness ==
    /\ pc = "done"
    /\ args.op = "imageTagVersion"
    /\ args.name = "cni-plugins"
    /\ ImageHits # {}
    /\ ImageTag = "v1.1.1-build20221011"
    /\ ret.val = "v1.1.1"

\* a call of GenReleaseNotes that returned a document
NotesRendered == NotesReturned /\ ret.err = ""

\* the rows of the document for a component
RowsOf(component) ==
    {ret.val[k] : k \in {j \in 1..Len(ret.val) :
                            HasPrefix(ret.val[j], "| " \o component \o " | ")}}

\* the row of a component that shows a version
ShowsVersion(component, base, version) ==
    RowsOf(component) = {Row(component, version, base \o version)}

ContainerdBase == "https://github.com/k3s-io/containerd/releases/tag/"
RuncBase == "https://github.com/opencontainers/runc/releases/tag/"

\* the containerd row: the go.mod version on the release line 1.23, else the
\* build-script version (k3s) or the Dockerfile version (rke2)
ContainerdRowAsClaimed ==
    ShowsVersion("Containerd", ContainerdBase,
                 IF ctx.majorMinor = "1.23" THEN ctx.ContainerdVersionGoMod
                 ELSE IF args.repo = "k3s" THEN ctx.ContainerdVersionK3S
                 ELSE ctx.ContainerdVersionRKE2)

\* C9 as stated: in both templates the containerd row and the runc row show
\* the go.mod version exactly when majorMinor is "1.23", and otherwise the
\* build-script (k3s) or the Dockerfile (rke2) version.
C9_RuntimeRowsByReleaseLine ==
    NotesRendered =>
        /\ ContainerdRowAsClaimed
        /\ ShowsVersion("Runc", RuncBase,
                        IF ctx.majorMinor = "1.23" THEN ctx.RuncVersionGoMod
                        ELSE IF args.repo = "k3s" THEN ctx.RuncVersionBuildScript
                        ELSE ctx.RuncVersionRKE2)

\* C9 amended: the containerd row is as stated; the runc row of the k3s
\* template shows the build-script version when majorMinor is "1.23" and the
\* go.mod version otherwise; the runc row of the rke2 template shows the
\* Dockerfile version on every release line.
C9_RuntimeRowsAsRendered ==
    NotesRendered =>
        /\ ContainerdRowAsClaimed
        /\ ShowsVersion("Runc", RuncBase,
                        IF args.repo = "rke2" THEN ctx.RuncVersionRKE2
                        ELSE IF ctx.majorMinor = "1.23" THEN ctx.RuncVersionBuildScript
                        ELSE ctx.RuncVersionGoMod)

\* C9 witness: a k3s document off the release line 1.23, every source
\* answering: the runc row shows the go.mod version v1.1.4, not the
\* build-script version v1.1.2, and the containerd row the build-script one.
C9_Witness ==
    /\ NotesRendered
    /\ args.repo = "k3s"
    /\ ctx.majorMinor = "1.25"
    /\ ctx.RuncVersionGoMod = "v1.1.4"
    /\ ctx.RuncVersionBuildScript = "v1.1.2"
    /\ ShowsVersion("Runc", RuncBase, "v1.1.4")
    /\ ShowsVersion("Containerd", ContainerdBase, "v1.6.6-k3s1")
\* the changelog section of the document: the lines after its heading and
\* before the next heading
ChangelogSection ==
    LET from == Min({k \in 1..Len(ret.val) : HasPrefix(ret.val[k], "## Changes since ")})
        to == Min({k \in (from + 1)..Len(ret.val) : HasPrefix(ret.val[k], "## ")})
    IN  SubSeq(ret.val, from + 1, to - 1)

\* the non-empty lines of the note of an entry
NoteLinesOf(e) == SelectSeq(Split(e.Note, "\n"), LAMBDA l : l # "")

\* the number of lines the entries before the k-th take in the section
RECURSIVE LinesBefore(_)
LinesBefore(k) ==
    IF k = 1 THEN 0
    ELSE LinesBefore(k - 1) + 1 + Len(NoteLinesOf(content[k - 1]))

\* C10: the changelog section holds one top-level bullet per entry, in the
\* order of the entries, with the title capitalized; under the bullet of an
\* entry every non-empty line of its note is one indented sub-bullet,
\* capitalized and in the order of the note; an empty line gives nothing.
C10_ChangelogBullets ==
    NotesRendered =>
        /\ Len(ChangelogSection) = LinesBefore(Len(content) + 1)
        /\ \A k \in 1..Len(content) :
              /\ ChangelogSection[LinesBefore(k) + 1] =
                    "* " \o capitalize(content[k].Title) \o " [(#"
                         \o ToString(content[k].Number) \o ")](" \o content[k].URL \o ")"
              /\ \A j \in 1..Len(NoteLinesOf(content[k])) :
                    ChangelogSection[LinesBefore(k) + 1 + j] =
                        "  * " \o capitalize(NoteLinesOf(content[k])[j])

\* C10 witness: two entries, the first with a note of three lines whose
\* second is empty, the second with a note that starts and ends with an
\* empty line: five lines, the last being the sub-bullet of the second entry.
C10_Witness ==
    /\ NotesRendered
    /\ Len(content) = 2
    /\ content[1].Note = "bump etcd\n\n- fixes #6399"
    /\ content[2].Note = "\nupdated traefik\n"
    /\ ChangelogSection =
          <<"* Fix etcd snapshot [(#6400)](https://github.com/k3s-io/k3s/pull/6400)",
            "  * Bump etcd",
            "  * - Fixes #6399",
            "* 6410 Backports [(#6410)](https://github.com/k3s-io/k3s/pull/6410)",
            "  * Updated traefik">>
(***************************************************************************)
(* Properties of the inputs and of the run-time failures.                  *)
(***************************************************************************)

AssetOps ==
    {"CheckUpstreamRelease", "VerifyAssets", "ListAssets", "DeleteAssetsByRelease",
     "DeleteAssetByID"}

\* an input the asset manager has to reject: an empty tag list or an empty
\* tag in it for the batch operations, an empty tag for the others, a
\* repository without organization for the operations that resolve it
InvalidInput ==
    CASE args.op = "CheckUpstreamRelease" ->
            Len(args.tags) = 0 \/ \E k \in 1..Len(args.tags) : args.tags[k] = ""
      [] args.op = "VerifyAssets" ->
            \/ Len(args.tags) = 0
            \/ \E k \in 1..Len(args.tags) : args.tags[k] = ""
            \/ OrgFromRepo(args.repo) = ""
      [] args.op \in {"ListAssets", "DeleteAssetsByRelease", "DeleteAssetByID"} ->
            args.tag = "" \/ OrgFromRepo(args.repo) = ""
      [] OTHER -> FALSE

\* C11: an operation of the asset manager called with an empty tag, an empty
\* tag list or a repository whose organization cannot be resolved makes no
\* call of the release platform and returns an error.
C11_InvalidInputNotAttempted ==
    (args.op \in AssetOps /\ InvalidInput) =>
        /\ calls = <<>>
        /\ pc = "done" => ret.err # ""

\* C13: ListAssets and DeleteAssetsByRelease whose release lookup answered
\* 404 end with a result or an error, never in a crash.
C13_MissingReleaseNoCrash ==
    (/\ args.op \in {"ListAssets", "DeleteAssetsByRelease"}
     /\ Len(calls) >= 1
     /\ calls[1].answer = "ErrorResponse404") =>
        pc # "panic"

\* C14: GenReleaseNotes derives the milestone and majorMinor of the render
\* context for every milestone, also for one that ends in "-rc" and for one
\* whose version has no ".", without a crash.
C14_MilestoneNoCrash ==
    args.op = "GenReleaseNotes" => pc # "panic"
\* C12: when the rke2 template, the one that applies majMin, gets a Calico
\* version that is no semantic version, GenReleaseNotes returns the error of
\* majMin and no document, not a part of one.
C12_UnparseableAbortsRender ==
    (/\ NotesReturned
     /\ args.repo = "rke2"
     /\ \/ MajorMinor(ctx.CanalCalicoVersion) = ""
        \/ MajorMinor(ctx.CalicoVersion) = "") =>
        /\ ret.err = "version is not valid"
        /\ ret.isNil
        /\ ret.val = EmptyMap

\* C12 witness: the Canal version v3.24.5 is a semantic version, so a part of
\* the document was rendered, when the Calico version 3.24.5 (no "v") was
\* refused; the call returned the error and no document.
C12_Witness ==
    /\ NotesReturned
    /\ args.repo = "rke2"
    /\ ctx.CanalCalicoVersion = "v3.24.5"
    /\ ctx.CalicoVersion = "3.24.5"
    /\ ret.err = "version is not valid"
    /\ ret.isNil

(***************************************************************************)
(* C15: ImageBuildBaseRelease creates a release only when due.             *)
(***************************************************************************)

\* the stable versions of the list as the claim names them: the version
\* string after its "go" prefix
StableVersions ==
    {From(args.versions[k].Version, 2) : k \in {j \in 1..Len(args.versions) :
        args.versions[j].Stable /\ HasPrefix(args.versions[j].Version, "go")}}

\* the call at position k created (or tried to create) a release that was
\* due: the run is not dry, the tag is that of a stable version, the call
\* before it looked the tag up and found nothing, and the call before that
\* checked the image of the same version with success
CreateWasDue(k) ==
    /\ ~args.dryRun
    /\ k >= 3
    /\ calls[k - 1].api = "GetReleaseByTag"
    /\ calls[k - 1].tag = calls[k].tag
    /\ calls[k - 1].answer # "ok"
    /\ calls[k - 2].api = "CheckImageArchs"
    /\ calls[k - 2].answer = "ok"
    /\ \E v \in StableVersions :
         /\ calls[k].tag = "v" \o v \o "b1"
         /\ calls[k - 2].tag = v \o "-alpine" \o args.alpineVersion

\* C15: in ImageBuildBaseRelease, over any list of Go versions and any
\* answers of the image check, the lookup and the creation, every
\* CreateRelease call is for a stable version whose image check succeeded
\* and whose tag lookup found no release, in a run that is not dry; in a dry
\* run no release is created, and the first lookup that finds no release
\* ends the run without error.
C15_ReleaseOnlyWhenDue ==
    args.op = "ImageBuildBaseRelease" =>
        /\ \A k \in 1..Len(calls) : calls[k].api = "CreateRelease" => CreateWasDue(k)
        /\ args.dryRun =>
             \A k \in 1..Len(calls) :
                (calls[k].api = "GetReleaseByTag" /\ calls[k].answer # "ok") =>
                    /\ k = Len(calls)
                    /\ pc = "done"
                    /\ ret = NoRet

\* a run that is not dry skipped the existing release of one stable version
\* and created the release of the next
C15_Witness ==
    /\ args.op = "ImageBuildBaseRelease"
    /\ ~args.dryRun
    /\ pc = "done"
    /\ ret = NoRet
    /\ Len(calls) = 5
    /\ calls[2].api = "GetReleaseByTag" /\ calls[2].answer = "ok"
    /\ calls[5] = Call("CreateRelease", "v1.18.8b1", "ok")
    /\ remote["v1.18.8b1"].exists

\* a dry run stopped at the first stable version lacking a release, with a
\* later stable version left unvisited
C15_DryRunStops ==
    /\ args.op = "ImageBuildBaseRelease"
    /\ args.dryRun
    /\ pc = "done"
    /\ Len(args.versions) = 3
    /\ args.versions[3].Stable
    /\ i = 1
    /\ Len(calls) = 2
    /\ calls[2] = Call("GetReleaseByTag", "v1.19.3b1", "ErrorResponse404")

====
